---- MODULE Spec2Model ----
(***************************************************************************)
(* Model of zulip_bots/lib.py: the sliding-window RateLimit, the           *)
(* dirty-tracked StateHandler, the ExternalBotHandler facade and the       *)
(* event dispatch of run_message_handler_for_bot.                          *)
(***************************************************************************)
EXTENDS Integers, Sequences, FiniteSets, TLC

\* ------------------------------------------------------------------ bounds
MaxN == 3            \* largest message_limit of a stand-alone limiter
MaxI == 2            \* largest interval_limit of a stand-alone limiter
MaxTime == 4         \* the clock of the limiter specification stops here
MaxCalls == 5        \* is_legal calls recorded by the limiter specification
MaxLen == 1          \* longest list or tuple a plugin stores
FacadeMaxTime == 5   \* the clock of the facade specification stops at or after this
MaxEvents == 2       \* events whose delivery the ordering specification records
MaxSegs == 3         \* most segments of a path handed to open
MaxPieces == 3       \* most pieces a content for the mention extraction is made of

\* ------------------------------------------------------- program constants
FacadeMessageLimit == 20
FacadeIntervalLimit == 5

VARIABLES
    message_limit,      \* RateLimit.message_limit
    interval_limit,     \* RateLimit.interval_limit
    message_list,       \* RateLimit.message_list
    now,                \* the value time.time() returns
    legal,              \* what the last is_legal call returned
    issued,             \* history: the timestamp of every is_legal call
    state_,             \* StateHandler.state_ : key -> marshalled text
    _modified_entries,  \* StateHandler._modified_entries
    store_ok,           \* TRUE once StateHandler.__init__ has returned normally
    remote_state,       \* the bot's storage on the server
    storage_calls,      \* get_storage/update_storage calls made by the last operation
    last_op,            \* the operation that ran last and the key it was given
    returned,           \* what the last operation returned
    raised,             \* the exception the last operation raised, "" for none
    put_value,          \* history: the value last handed to put, per key
    flushed,            \* history: keys whose last put was followed by a successful _save
    roundtrip,          \* history: flushed keys at the time the store was last constructed
    uses_storage,       \* bot_details.get('uses_storage', False)
    pc,                 \* where the process is
    exit_code,          \* the argument of sys.exit, "none" while the process runs
    client_calls,       \* send_message/update_message calls made on the client by the last operation
    checks,             \* is_legal calls made by the last operation
    event,              \* the event handed to event_callback last
    message,            \* the message handed to the plugin's handle_message last
    call_arg,           \* the arguments of the last send_reply, open or extract call
    saves,              \* _save calls made by the last operation
    delivered,          \* history: the events call_on_each_event has delivered
    invocation_log      \* history: starts and ends of the processing of qualifying events

limiterVars == <<message_limit, interval_limit, message_list, now, legal, issued>>
storeVars == <<state_, _modified_entries, store_ok, remote_state>>
traceVars == <<storage_calls, last_op, returned, raised>>
historyVars == <<put_value, flushed, roundtrip>>
procVars == <<uses_storage, pc, exit_code>>
facadeVars == <<client_calls, checks>>
dispatchVars == <<event, message>>
orderVars == <<delivered, invocation_log>>

vars == <<limiterVars, storeVars, traceVars, historyVars, procVars, facadeVars, dispatchVars,
          call_arg, saves, orderVars>>

Last(s) == s[Len(s)]

Op(name, key) == [op |-> name, key |-> key]

\* ------------------------------------------------------------ Python values
PyNone == [kind |-> "None", val |-> ""]
PyBool(b) == [kind |-> "bool", val |-> IF b THEN "True" ELSE "False"]
PyStr(c) == [kind |-> "str", val |-> c]
PyInt(d) == [kind |-> "int", val |-> d]
PyList(items) == [kind |-> "list", val |-> items]
PyTuple(items) == [kind |-> "tuple", val |-> items]
PyKeyError(key) == [kind |-> "KeyError", val |-> key]

Scalars == {PyStr("1"), PyInt("1")}

SeqsUpTo(S, n) == UNION {[1..m -> S] : m \in 0..n}

\* The values a plugin hands to put.
PyValues ==
    Scalars \cup {PyList(items) : items \in SeqsUpTo(Scalars, MaxLen)}
            \cup {PyTuple(items) : items \in SeqsUpTo(Scalars, MaxLen)}

Keys == {"k1", "k2"}

EmptyMap == [k \in {} |-> << >>]

\* ============================================================== json

\* A str written without its quotes.
DumpScalarUnquoted(x) == <<x.val>>

\* json.dumps of a str, an int, or one element of a list.
DumpScalar(x) ==
    IF x.kind = "str" THEN <<"\"", x.val, "\"">> ELSE <<x.val>>

\* The elements of a list or tuple, separated by ", ".
RECURSIVE DumpItems(_)
DumpItems(items) ==
    IF Len(items) = 0 THEN << >>
    ELSE IF Len(items) = 1 THEN DumpScalar(items[1])
    ELSE DumpScalar(items[1]) \o <<",", " ">> \o DumpItems(Tail(items))

\* json.dumps: the text is a sequence of characters.  A tuple is written
\* as an array, like a list.
json_dumps(obj) ==
    IF obj.kind \in {"list", "tuple"}
    THEN <<"[">> \o DumpItems(obj.val) \o <<"]">>
    ELSE DumpScalar(obj)

\* The scalar that starts at position i of text, and the position after it.
ParseScalar(text, i) ==
    IF text[i] = "\""
    THEN [value |-> PyStr(text[i + 1]), next |-> i + 3]
    ELSE [value |-> PyInt(text[i]), next |-> i + 1]

\* The elements of the array whose first element starts at or after i.
RECURSIVE ParseItems(_, _, _)
ParseItems(text, i, acc) ==
    IF text[i] = "]" THEN acc
    ELSE IF text[i] \in {",", " "} THEN ParseItems(text, i + 1, acc)
    ELSE LET r == ParseScalar(text, i)
         IN  ParseItems(text, r.next, Append(acc, r.value))

\* json.loads: an array is read back as a list.
json_loads(text) ==
    IF text[1] = "["
    THEN PyList(ParseItems(text, 2, << >>))
    ELSE ParseScalar(text, 1).value

\* ============================================================== RateLimit

\* A window that never evicts.
WindowNoEvict(ml, limit, t) == Append(ml, t)

\* message_list after is_legal ran at time t (append, then pop(0) when the
\* list is longer than message_limit).
WindowAfter(ml, limit, t) ==
    LET appended == Append(ml, t)
    IN  IF Len(appended) > limit THEN Tail(appended) ELSE appended

\* is_legal comparing with > where the code has >=.
is_legal_strict(ml, limit, interval, t) ==
    LET appended == Append(ml, t)
    IN  IF Len(appended) > limit
        THEN Last(Tail(appended)) - Head(Tail(appended)) > interval
        ELSE TRUE

\* is_legal measuring the span before the oldest timestamp is popped.
is_legal_before_pop(ml, limit, interval, t) ==
    LET appended == Append(ml, t)
    IN  IF Len(appended) > limit
        THEN Last(appended) - Head(appended) >= interval
        ELSE TRUE

\* The value is_legal returns at time t.
is_legal(ml, limit, interval, t) ==
    LET appended == Append(ml, t)
    IN  IF Len(appended) > limit
        THEN LET trimmed == Tail(appended)
                 time_diff == Last(trimmed) - Head(trimmed)
             IN  time_diff >= interval
        ELSE TRUE

\* RateLimit(message_limit, interval_limit)
RateLimitInit(limit, interval) ==
    /\ message_limit = limit
    /\ interval_limit = interval
    /\ message_list = << >>

\* ============================================================ StateHandler

marshal(obj) == json_dumps(obj)
demarshal(text) == json_loads(text)

\* key in self.state_
contains(key) == key \in DOMAIN state_

\* self.demarshal(self.state_[key])
get(key) == demarshal(state_[key])

\* An update that carries the whole mapping.
StateUpdateAll(state, modified) == state

\* The dict _save hands to update_storage, from a mapping and a dirty set.
StateUpdate(state, modified) == [key \in modified |-> state[key]]

\* The server's storage after it accepted an update.
Merge(old, update) ==
    [key \in DOMAIN old \cup DOMAIN update |->
        IF key \in DOMAIN update THEN update[key] ELSE old[key]]

StorageCall(name, payload, result) ==
    [call |-> name, payload |-> payload, result |-> result]

Results == {"success", "error"}

\* No StateHandler has been constructed.
NoStateHandler ==
    /\ state_ = EmptyMap
    /\ _modified_entries = {}
    /\ store_ok = FALSE
    /\ put_value = [k \in Keys |-> PyNone]
    /\ flushed = {}
    /\ roundtrip = {}

\* No StateHandler, and nothing in the bot's storage on the server.
NoStore ==
    /\ NoStateHandler
    /\ remote_state = EmptyMap

NoEvent == [type |-> "none"]
NoMessage == [type |-> "none"]
NoArg == [none |-> TRUE]

InitTrace ==
    /\ storage_calls = << >>
    /\ last_op = Op("start", "")
    /\ returned = PyNone
    /\ raised = ""
    /\ client_calls = << >>
    /\ checks = 0
    /\ event = NoEvent
    /\ message = NoMessage
    /\ call_arg = NoArg
    /\ saves = 0
    /\ delivered = << >>
    /\ invocation_log = << >>

\* StateHandler.__init__: fetch the whole storage; an error response raises
\* StateHandlerError and leaves no store behind.
StateHandlerInit(result) ==
    /\ storage_calls' = <<StorageCall("get_storage", EmptyMap, result)>>
    /\ IF result = "success"
       THEN /\ state_' = remote_state
            /\ _modified_entries' = {}
            /\ store_ok' = TRUE
            /\ raised' = ""
       ELSE /\ state_' = EmptyMap
            /\ _modified_entries' = {}
            /\ store_ok' = FALSE
            /\ raised' = "StateHandlerError"
    /\ roundtrip' = IF result = "success" THEN flushed ELSE {}
    /\ put_value' = [k \in Keys |-> IF k \in flushed THEN put_value[k] ELSE PyNone]
    /\ UNCHANGED <<remote_state, flushed>>

\* A put that marks the key dirty without storing it.
put_dirty_only(key, value) ==
    /\ _modified_entries' = _modified_entries \cup {key}
    /\ storage_calls' = << >>
    /\ raised' = ""
    /\ put_value' = [put_value EXCEPT ![key] = value]
    /\ flushed' = flushed \ {key}
    /\ roundtrip' = roundtrip \ {key}
    /\ UNCHANGED <<state_, store_ok, remote_state>>

\* A put that stores the value without marking the key dirty.
put_unmarked(key, value) ==
    /\ state_' = [k \in DOMAIN state_ \cup {key} |->
                    IF k = key THEN marshal(value) ELSE state_[k]]
    /\ storage_calls' = << >>
    /\ raised' = ""
    /\ put_value' = [put_value EXCEPT ![key] = value]
    /\ flushed' = flushed \ {key}
    /\ roundtrip' = roundtrip \ {key}
    /\ UNCHANGED <<_modified_entries, store_ok, remote_state>>

\* StateHandler.put
put(key, value) ==
    /\ state_' = [k \in DOMAIN state_ \cup {key} |->
                    IF k = key THEN marshal(value) ELSE state_[k]]
    /\ _modified_entries' = _modified_entries \cup {key}
    /\ storage_calls' = << >>
    /\ raised' = ""
    /\ put_value' = [put_value EXCEPT ![key] = value]
    /\ flushed' = flushed \ {key}
    /\ roundtrip' = roundtrip \ {key}
    /\ UNCHANGED <<store_ok, remote_state>>

\* A _save that empties the dirty set before it looks at the response.
save_clear_first(result) ==
    LET state_update == [state |-> StateUpdate(state_, _modified_entries)]
    IN  /\ storage_calls' = <<StorageCall("update_storage", state_update.state, result)>>
        /\ _modified_entries' = {}
        /\ IF result = "success"
           THEN /\ remote_state' = Merge(remote_state, state_update.state)
                /\ flushed' = {k \in Keys : put_value[k] # PyNone}
                /\ raised' = ""
           ELSE /\ raised' = "StateHandlerError"
                /\ UNCHANGED <<remote_state, flushed>>
        /\ UNCHANGED <<state_, store_ok, put_value, roundtrip>>

\* StateHandler._save: state_update is {'state': {...}}, a dict with one
\* key, so "if state_update" holds whatever the dirty set is.
_save(result) ==
    LET state_update == [state |-> StateUpdate(state_, _modified_entries)]
    IN  IF DOMAIN state_update # {}
        THEN /\ storage_calls' = <<StorageCall("update_storage", state_update.state, result)>>
             /\ IF result = "success"
                THEN /\ _modified_entries' = {}
                     /\ remote_state' = Merge(remote_state, state_update.state)
                     /\ flushed' = {k \in Keys : put_value[k] # PyNone}
                     /\ raised' = ""
                ELSE /\ raised' = "StateHandlerError"
                     /\ UNCHANGED <<_modified_entries, remote_state, flushed>>
             /\ UNCHANGED <<state_, store_ok, put_value, roundtrip>>
        ELSE /\ storage_calls' = << >>
             /\ raised' = ""
             /\ UNCHANGED <<storeVars, historyVars>>

\* ---- the operations of a stand-alone StateHandler

Construct ==
    /\ \E result \in Results : StateHandlerInit(result)
    /\ last_op' = Op("StateHandler", "")
    /\ returned' = PyNone
    /\ UNCHANGED <<limiterVars, procVars, facadeVars, dispatchVars>>
    /\ saves' = 0
    /\ call_arg' = NoArg
    /\ UNCHANGED orderVars

Put ==
    /\ store_ok
    /\ \E key \in Keys, value \in PyValues :
          /\ put(key, value)
          /\ last_op' = Op("put", key)
    /\ returned' = PyNone
    /\ UNCHANGED <<limiterVars, procVars, facadeVars, dispatchVars>>
    /\ saves' = 0
    /\ call_arg' = NoArg
    /\ UNCHANGED orderVars

Get ==
    /\ store_ok
    /\ \E key \in Keys :
          /\ last_op' = Op("get", key)
          /\ IF contains(key)
             THEN returned' = get(key) /\ raised' = ""
             ELSE returned' = PyNone /\ raised' = "KeyError"
    /\ storage_calls' = << >>
    /\ UNCHANGED <<limiterVars, storeVars, historyVars, procVars, facadeVars, dispatchVars>>
    /\ saves' = 0
    /\ call_arg' = NoArg
    /\ UNCHANGED orderVars

Contains ==
    /\ store_ok
    /\ \E key \in Keys :
          /\ last_op' = Op("contains", key)
          /\ returned' = PyBool(contains(key))
    /\ storage_calls' = << >>
    /\ raised' = ""
    /\ UNCHANGED <<limiterVars, storeVars, historyVars, procVars, facadeVars, dispatchVars>>
    /\ saves' = 0
    /\ call_arg' = NoArg
    /\ UNCHANGED orderVars

Save ==
    /\ store_ok
    /\ \E result \in Results : _save(result)
    /\ last_op' = Op("_save", "")
    /\ returned' = PyNone
    /\ UNCHANGED <<limiterVars, procVars, facadeVars, dispatchVars>>
    /\ saves' = 1
    /\ call_arg' = NoArg
    /\ UNCHANGED orderVars

NoLimiter ==
    /\ RateLimitInit(FacadeMessageLimit, FacadeIntervalLimit)
    /\ now = 0
    /\ legal = TRUE
    /\ issued = << >>

\* The server holds an empty storage; the first StateHandler is constructed.
InitStore ==
    /\ NoLimiter
    /\ NoStore
    /\ InitTrace
    /\ uses_storage = TRUE
    /\ pc = "direct"
    /\ exit_code = "none"

NextStore == Construct \/ Put \/ Get \/ Contains \/ Save

SpecStore == InitStore /\ [][NextStore]_vars

\* ====================================================== ExternalBotHandler

\* What client.get_profile() returned for this bot.
user_profile ==
    [user_id |-> 11, full_name |-> <<"B", "o", "t">>, email |-> "bot@zulip"]

user_id == user_profile.user_id
full_name == user_profile.full_name
email == user_profile.email

\* Some other user of the realm.
OtherUserId == user_id + 1

ClientCall(name, payload) == [call |-> name, payload |-> payload]

Response(result) == [kind |-> "response", val |-> result]

\* RateLimit.show_error_and_exit: log the error, sys.exit(1).
show_error_and_exit ==
    /\ pc' = "exited"
    /\ exit_code' = "1"

\* A send_message that transmits without asking the limiter.
send_message_unchecked(msg) ==
    /\ checks' = 0
    /\ client_calls' = <<ClientCall("send_message", msg)>>
    /\ \E result \in Results : returned' = Response(result)
    /\ UNCHANGED <<message_list, legal, pc, exit_code>>

\* ExternalBotHandler.send_message
send_message(msg) ==
    /\ checks' = 1
    /\ message_list' = WindowAfter(message_list, message_limit, now)
    /\ legal' = is_legal(message_list, message_limit, interval_limit, now)
    /\ IF legal'
       THEN /\ client_calls' = <<ClientCall("send_message", msg)>>
            /\ \E result \in Results : returned' = Response(result)
            /\ UNCHANGED <<pc, exit_code>>
       ELSE /\ client_calls' = << >>
            /\ returned' = PyNone
            /\ show_error_and_exit

\* The emails of all the recipients, the bot's own among them.
AllRecipients(display_recipient) ==
    [i \in 1..Len(display_recipient) |-> display_recipient[i].email]

\* The emails of the recipients other than the bot, in their order.
OtherRecipients(display_recipient) ==
    LET others == SelectSeq(display_recipient, LAMBDA x : email # x.email)
    IN  [i \in 1..Len(others) |-> others[i].email]

\* ExternalBotHandler.send_reply
send_reply(msg, response) ==
    IF msg.type = "private"
    THEN send_message([type |-> "private",
                       to |-> OtherRecipients(msg.display_recipient),
                       content |-> response])
    ELSE send_message([type |-> "stream",
                       to |-> msg.display_recipient,
                       subject |-> msg.subject,
                       content |-> response])

\* ExternalBotHandler.update_message
update_message(msg) ==
    /\ checks' = 1
    /\ message_list' = WindowAfter(message_list, message_limit, now)
    /\ legal' = is_legal(message_list, message_limit, interval_limit, now)
    /\ IF legal'
       THEN /\ client_calls' = <<ClientCall("update_message", msg)>>
            /\ \E result \in Results : returned' = Response(result)
            /\ UNCHANGED <<pc, exit_code>>
       ELSE /\ client_calls' = << >>
            /\ returned' = PyNone
            /\ show_error_and_exit

\* ---- messages and what a plugin sends

Mention == <<"@", "*", "*">> \o full_name \o <<"*", "*">>

Contents ==
    { Mention \o <<" ", "h", "i">>,
      <<"h", "i", " ">> \o Mention,
      <<"h", "i">> }

PrivateRecipients ==
    <<[email |-> email], [email |-> "a@zulip"], [email |-> "b@zulip"]>>

PrivateMessage(sender, content) ==
    [type |-> "private", sender_id |-> sender, content |-> content,
     display_recipient |-> PrivateRecipients, subject |-> ""]

StreamMessage(sender, content) ==
    [type |-> "stream", sender_id |-> sender, content |-> content,
     display_recipient |-> "general", subject |-> "topic"]

Senders == {user_id, OtherUserId}

PrivateMessages == {PrivateMessage(u, c) : u \in Senders, c \in Contents}
StreamMessages == {StreamMessage(u, c) : u \in Senders, c \in Contents}

\* Private conversations with other participant lists: the bot last, the
\* bot alone.
GroupMessages ==
    {[type |-> "private", sender_id |-> OtherUserId, content |-> <<"h", "i">>,
      display_recipient |-> r, subject |-> ""] :
        r \in {<<[email |-> "b@zulip"], [email |-> email]>>, <<[email |-> email]>>}}

ReplyArgs(msg, response) == [message |-> msg, response |-> response]

PrivateEnvelope == [type |-> "private", to |-> <<"a@zulip">>, content |-> "text"]
StreamEnvelope ==
    [type |-> "stream", to |-> "general", subject |-> "topic", content |-> "text"]
Edit == [message_id |-> "m1", content |-> "text"]

\* The plugin is running: in initialize, in handle_message, or driving the
\* facade directly.
PluginRunning == pc \in {"initialize", "handling", "direct"}

\* ---- the facade's operations, as a plugin calls them

SendMessage ==
    /\ PluginRunning
    /\ send_message(PrivateEnvelope) \/ send_message(StreamEnvelope)
    /\ last_op' = Op("send_message", "")
    /\ storage_calls' = << >>
    /\ raised' = ""
    /\ UNCHANGED <<message_limit, interval_limit, now, issued>>
    /\ UNCHANGED <<storeVars, historyVars, uses_storage, dispatchVars>>
    /\ saves' = 0
    /\ call_arg' = NoArg
    /\ UNCHANGED orderVars

\* The messages a plugin replies to: the one it is handling, or any message
\* when the facade is driven directly.
ReplyTargets ==
    IF pc = "handling" THEN {message}
    ELSE PrivateMessages \cup GroupMessages \cup StreamMessages

SendReply ==
    /\ PluginRunning
    /\ \E msg \in ReplyTargets :
            send_reply(msg, "reply") /\ call_arg' = ReplyArgs(msg, "reply")
    /\ last_op' = Op("send_reply", "")
    /\ storage_calls' = << >>
    /\ raised' = ""
    /\ UNCHANGED <<message_limit, interval_limit, now, issued>>
    /\ UNCHANGED <<storeVars, historyVars, uses_storage, dispatchVars>>
    /\ saves' = 0
    /\ UNCHANGED orderVars

UpdateMessage ==
    /\ PluginRunning
    /\ update_message(Edit)
    /\ last_op' = Op("update_message", "")
    /\ storage_calls' = << >>
    /\ raised' = ""
    /\ UNCHANGED <<message_limit, interval_limit, now, issued>>
    /\ UNCHANGED <<storeVars, historyVars, uses_storage, dispatchVars>>
    /\ saves' = 0
    /\ call_arg' = NoArg
    /\ UNCHANGED orderVars

\* time.time() moves forward by a whole interval.
TickInterval ==
    /\ pc \notin {"exited", "crashed"}
    /\ now < FacadeMaxTime
    /\ now' = now + FacadeIntervalLimit
    /\ last_op' = Op("tick", "")
    /\ storage_calls' = << >>
    /\ client_calls' = << >>
    /\ checks' = 0
    /\ UNCHANGED <<message_limit, interval_limit, message_list, legal, issued>>
    /\ UNCHANGED <<storeVars, returned, raised, historyVars, procVars, dispatchVars>>
    /\ saves' = 0
    /\ call_arg' = NoArg
    /\ UNCHANGED orderVars

\* A facade whose plugin has no storage, driven call by call.
InitFacade ==
    /\ NoLimiter
    /\ NoStore
    /\ InitTrace
    /\ uses_storage = FALSE
    /\ pc = "direct"
    /\ exit_code = "none"

NextFacade == SendMessage \/ SendReply \/ UpdateMessage \/ TickInterval

SpecFacade == InitFacade /\ [][NextFacade]_vars

\* ====================================================== the dispatch loop

startswith(text, prefix) ==
    /\ Len(text) >= Len(prefix)
    /\ SubSeq(text, 1, Len(prefix)) = prefix

Whitespace == {" ", "\n"}

\* str.lstrip()
RECURSIVE lstrip(_)
lstrip(text) ==
    IF text # << >> /\ Head(text) \in Whitespace THEN lstrip(Tail(text)) ELSE text

None == [none |-> TRUE, text |-> << >>]
Some(text) == [none |-> FALSE, text |-> text]

\* A search for the mention anywhere in the content, not only at its start.
RECURSIVE extract_query_anywhere(_, _)
extract_query_anywhere(msg, client) ==
    LET mention == <<"@", "*", "*">> \o client.full_name \o <<"*", "*">>
    IN  IF Len(msg.content) < Len(mention)
        THEN None
        ELSE IF startswith(msg.content, mention)
        THEN Some(lstrip(SubSeq(msg.content, Len(mention) + 1, Len(msg.content))))
        ELSE extract_query_anywhere([msg EXCEPT !.content = Tail(msg.content)], client)

\* An extraction that returns the rest of the content as it is.
extract_query_unstripped(msg, client) ==
    LET mention == <<"@", "*", "*">> \o client.full_name \o <<"*", "*">>
    IN  IF ~startswith(msg.content, mention)
        THEN None
        ELSE Some(SubSeq(msg.content, Len(mention) + 1, Len(msg.content)))

\* extract_query_without_mention(message, client): None unless the content
\* starts with the mention of client.full_name, else the rest of the content,
\* left-stripped.
extract_query_without_mention(msg, client) ==
    LET mention == <<"@", "*", "*">> \o client.full_name \o <<"*", "*">>
    IN  IF ~startswith(msg.content, mention)
        THEN None
        ELSE Some(lstrip(SubSeq(msg.content, Len(mention) + 1, Len(msg.content))))

\* A comparison that takes the bot's own private messages for another user's.
is_private_message_from_self(message_dict, current_user_id) ==
    IF message_dict.type = "private"
    THEN current_user_id = message_dict.sender_id
    ELSE FALSE

\* is_private_message_from_another_user
is_private_message_from_another_user(message_dict, current_user_id) ==
    IF message_dict.type = "private"
    THEN current_user_id # message_dict.sender_id
    ELSE FALSE

FlagSets == {{}, {"mentioned"}, {"mentioned", "read"}}

MessageEvent(msg, flags) == [type |-> "message", message |-> msg, flags |-> flags]

OtherEvent == [type |-> "heartbeat"]

\* What a plugin stores while it handles a message.
HandlerValues == {PyList(<<PyStr("1")>>)}

\* What the server's storage may hold when the process starts.
InitialStorages == {EmptyMap, [k \in {"k1"} |-> json_dumps(PyInt("1"))]}

\* A flush step that is skipped when the bot has no storage.
storage_save_if_any ==
    IF ~store_ok
    THEN /\ raised' = ""
         /\ pc' = "idle"
         /\ storage_calls' = << >>
         /\ saves' = 0
         /\ UNCHANGED <<storeVars, historyVars>>
    ELSE /\ \E result \in Results : _save(result)
         /\ saves' = 1
         /\ pc' = IF raised' = "" THEN "idle" ELSE "crashed"

\* restricted_client.storage._save(): the storage property raises
\* AttributeError when the bot has no storage; an exception of _save is not
\* caught anywhere up to call_on_each_event.
storage_save ==
    IF ~store_ok
    THEN /\ raised' = "AttributeError"
         /\ pc' = "crashed"
         /\ storage_calls' = << >>
         /\ saves' = 0
         /\ UNCHANGED <<storeVars, historyVars>>
    ELSE /\ \E result \in Results : _save(result)
         /\ saves' = 1
         /\ pc' = IF raised' = "" THEN "idle" ELSE "crashed"

\* A dispatcher that hands every message that is not dropped to the plugin.
handle_message_unfiltered(msg, flags) ==
    LET is_mentioned == "mentioned" \in flags
        is_private_message == is_private_message_from_another_user(msg, user_id)
        query == extract_query_without_mention(msg, user_profile)
    IN  IF is_mentioned /\ query.none
        THEN \* return: the message shall not be handled
             /\ pc' = "idle"
             /\ storage_calls' = << >>
             /\ saves' = 0
             /\ raised' = ""
             /\ UNCHANGED <<message, storeVars, historyVars>>
        ELSE IF TRUE
        THEN \* message_handler.handle_message(message, bot_handler) starts
             /\ message' = IF is_mentioned
                           THEN [msg EXCEPT !.content = query.text]
                           ELSE msg
             /\ pc' = "handling"
             /\ storage_calls' = << >>
             /\ saves' = 0
             /\ raised' = ""
             /\ UNCHANGED <<storeVars, historyVars>>
        ELSE /\ storage_save
             /\ UNCHANGED message

\* handle_message(message, flags), up to the return of the plugin's
\* handle_message when it is invoked.
handle_message(msg, flags) ==
    LET is_mentioned == "mentioned" \in flags
        is_private_message == is_private_message_from_another_user(msg, user_id)
        query == extract_query_without_mention(msg, user_profile)
    IN  IF is_mentioned /\ query.none
        THEN \* return: the message shall not be handled
             /\ pc' = "idle"
             /\ storage_calls' = << >>
             /\ saves' = 0
             /\ raised' = ""
             /\ UNCHANGED <<message, storeVars, historyVars>>
        ELSE IF is_private_message \/ is_mentioned
        THEN \* message_handler.handle_message(message, bot_handler) starts
             /\ message' = IF is_mentioned
                           THEN [msg EXCEPT !.content = query.text]
                           ELSE msg
             /\ pc' = "handling"
             /\ storage_calls' = << >>
             /\ saves' = 0
             /\ raised' = ""
             /\ UNCHANGED <<storeVars, historyVars>>
        ELSE /\ storage_save
             /\ UNCHANGED message

\* event_callback(event)
event_callback(ev) ==
    IF ev.type = "message"
    THEN handle_message(ev.message, ev.flags)
    ELSE /\ pc' = "idle"
         /\ storage_calls' = << >>
         /\ saves' = 0
         /\ raised' = ""
         /\ UNCHANGED <<message, storeVars, historyVars>>

\* ---- the steps of the process

\* A facade that builds a StateHandler for every plugin.
declares_always == TRUE

\* self.bot_details.get('uses_storage', False)
declares_storage == uses_storage

\* ExternalBotHandler.__init__, then message_handler.initialize if the
\* plugin has one.
Startup ==
    /\ pc = "start"
    /\ \E profile \in {"ok", "ZulipError", "error", "no user_id"},
          result \in Results, has_initialize \in BOOLEAN :
          IF profile \in {"ZulipError", "error"}
          THEN /\ pc' = "exited"
               /\ exit_code' = "1"
               /\ storage_calls' = << >>
               /\ raised' = ""
               /\ UNCHANGED <<storeVars, historyVars>>
          ELSE IF declares_storage /\ result = "error"
          THEN /\ StateHandlerInit(result)
               /\ pc' = "crashed"
               /\ UNCHANGED exit_code
          ELSE /\ IF declares_storage
                  THEN StateHandlerInit(result)
                  ELSE /\ storage_calls' = << >>
                       /\ raised' = ""
                       /\ UNCHANGED <<storeVars, historyVars>>
               /\ IF profile = "no user_id"
                  THEN pc' = "exited" /\ exit_code' = "1"
                  ELSE /\ pc' = IF has_initialize THEN "initialize" ELSE "idle"
                       /\ UNCHANGED exit_code
    /\ last_op' = Op("ExternalBotHandler", "")
    /\ UNCHANGED <<limiterVars, uses_storage, facadeVars, dispatchVars, returned>>
    /\ saves' = 0
    /\ call_arg' = NoArg
    /\ UNCHANGED orderVars

\* message_handler.initialize returns.
InitializeReturn ==
    /\ pc = "initialize"
    /\ pc' = "idle"
    /\ last_op' = Op("initialize_return", "")
    /\ storage_calls' = << >>
    /\ client_calls' = << >>
    /\ checks' = 0
    /\ raised' = ""
    /\ UNCHANGED <<limiterVars, storeVars, historyVars, uses_storage, exit_code,
                   dispatchVars, returned>>
    /\ saves' = 0
    /\ call_arg' = NoArg
    /\ UNCHANGED orderVars

\* call_on_each_event delivers one event to event_callback.
AllEvents ==
    {MessageEvent(m, f) : m \in PrivateMessages \cup StreamMessages, f \in FlagSets}
        \cup {OtherEvent}

\* An event loop that hands over the next event while the callback runs.
LoopReentrant == pc \in {"idle", "handling"}

\* call_on_each_event calls event_callback for the next event once the
\* callback has returned for the previous one.
LoopReady == pc = "idle"

call_on_each_event(events) ==
    /\ LoopReady
    /\ \E ev \in events :
          /\ event' = ev
          /\ event_callback(ev)
    /\ last_op' = Op("event_callback", "")
    /\ client_calls' = << >>
    /\ checks' = 0
    /\ UNCHANGED <<limiterVars, uses_storage, exit_code, returned>>
    /\ call_arg' = NoArg

EventCallback ==
    /\ call_on_each_event(AllEvents)
    /\ UNCHANGED orderVars

\* The plugin calls bot_handler.storage.put(key, value).
PluginPut ==
    /\ PluginRunning
    /\ \E key \in Keys, value \in HandlerValues :
          /\ last_op' = Op("put", key)
          /\ IF store_ok
             THEN put(key, value) /\ UNCHANGED pc
             ELSE /\ raised' = "AttributeError"
                  /\ pc' = "crashed"
                  /\ storage_calls' = << >>
                  /\ UNCHANGED <<storeVars, historyVars>>
    /\ client_calls' = << >>
    /\ checks' = 0
    /\ returned' = PyNone
    /\ UNCHANGED <<limiterVars, uses_storage, exit_code, dispatchVars>>
    /\ saves' = 0
    /\ call_arg' = NoArg
    /\ UNCHANGED orderVars

\* The plugin's handle_message returns; handle_message goes on to _save.
handler_returns ==
    /\ pc = "handling"
    /\ storage_save
    /\ last_op' = Op("handler_return", "")
    /\ client_calls' = << >>
    /\ checks' = 0
    /\ returned' = PyNone
    /\ UNCHANGED <<limiterVars, uses_storage, exit_code, dispatchVars>>
    /\ call_arg' = NoArg

HandlerReturn ==
    /\ handler_returns
    /\ UNCHANGED orderVars

\* The plugin's handle_message raises; nothing catches it.
HandlerRaise ==
    /\ pc = "handling"
    /\ pc' = "crashed"
    /\ raised' = "Exception"
    /\ last_op' = Op("handler_raise", "")
    /\ storage_calls' = << >>
    /\ client_calls' = << >>
    /\ checks' = 0
    /\ returned' = PyNone
    /\ UNCHANGED <<limiterVars, storeVars, historyVars, uses_storage, exit_code, dispatchVars>>
    /\ saves' = 0
    /\ call_arg' = NoArg
    /\ UNCHANGED orderVars

\* SIGINT after signal.signal(SIGINT, exit_gracefully): sys.exit(0) is raised
\* in the main thread wherever it is, waiting for an event (pc = "idle"),
\* inside the plugin's handle_message, or inside _save; in _save the signal
\* may come before update_storage is sent or after the server has applied
\* it, and the lines after the call are not run.
exit_gracefully ==
    /\ pc \in {"idle", "handling"}
    /\ pc' = "exited"
    /\ exit_code' = "0"
    /\ \/ /\ storage_calls' = << >>
          /\ UNCHANGED remote_state
       \/ /\ pc = "handling"
          /\ store_ok
          /\ storage_calls' = <<StorageCall("update_storage",
                                          StateUpdate(state_, _modified_entries), "success")>>
          /\ remote_state' = Merge(remote_state, StateUpdate(state_, _modified_entries))
    /\ last_op' = Op("exit_gracefully", "")
    /\ client_calls' = << >>
    /\ checks' = 0
    /\ saves' = IF storage_calls' = << >> THEN 0 ELSE 1
    /\ raised' = ""
    /\ returned' = PyNone
    /\ call_arg' = NoArg
    /\ UNCHANGED <<limiterVars, state_, _modified_entries, store_ok, historyVars,
                   uses_storage, dispatchVars, orderVars>>

Init ==
    /\ NoLimiter
    /\ NoStateHandler
    /\ remote_state \in InitialStorages
    /\ InitTrace
    /\ uses_storage \in BOOLEAN
    /\ pc = "start"
    /\ exit_code = "none"

Next ==
    \/ Startup
    \/ InitializeReturn
    \/ EventCallback
    \/ PluginPut
    \/ SendReply
    \/ HandlerReturn
    \/ HandlerRaise
    \/ exit_gracefully

Spec == Init /\ [][Next]_vars

\* ---- the dispatch loop with the history of deliveries and invocations

OrderEvents ==
    {MessageEvent(PrivateMessage(OtherUserId, <<"h", "i">>), {}),
     MessageEvent(StreamMessage(OtherUserId, <<"h", "i">>), {}),
     MessageEvent(StreamMessage(OtherUserId, Mention \o <<" ", "h", "i">>), {"mentioned"}),
     OtherEvent}

EventDelivered ==
    /\ Len(delivered) < MaxEvents
    /\ call_on_each_event(OrderEvents)
    /\ delivered' = Append(delivered, event')
    /\ invocation_log' =
          IF pc' = "handling"
          THEN Append(invocation_log, <<Len(delivered) + 1, "invoke">>)
          ELSE invocation_log

HandlerFinished ==
    /\ handler_returns
    /\ invocation_log' =
          IF pc' = "idle"
          THEN Append(invocation_log, <<Len(delivered), "done">>)
          ELSE invocation_log
    /\ UNCHANGED delivered

NextOrder ==
    \/ Startup
    \/ InitializeReturn
    \/ EventDelivered
    \/ PluginPut
    \/ HandlerFinished
    \/ HandlerRaise
    \/ exit_gracefully

SpecOrder == Init /\ [][NextOrder]_vars

\* ---- extract_query_without_mention over many contents and names

Names == {full_name, <<"X">>}

Pieces ==
    {<<"@", "*", "*">> \o name \o <<"*", "*">> : name \in Names}
        \cup {<<" ">>, <<"\n">>, <<"h">>}

RECURSIVE Concat(_)
Concat(pieces) == IF pieces = << >> THEN << >> ELSE Head(pieces) \o Concat(Tail(pieces))

MentionContents == {Concat(pieces) : pieces \in SeqsUpTo(Pieces, MaxPieces)}

\* A call of extract_query_without_mention(message, client), as test_lib.py
\* makes it, before the process has started.
ExtractQuery ==
    /\ pc = "start"
    /\ \E content \in MentionContents, name \in Names :
          LET query == extract_query_without_mention([content |-> content],
                                                     [full_name |-> name])
          IN  /\ call_arg' = [content |-> content, full_name |-> name]
              /\ returned' = IF query.none THEN PyNone
                              ELSE [kind |-> "str", val |-> query.text]
    /\ last_op' = Op("extract_query_without_mention", "")
    /\ storage_calls' = << >>
    /\ client_calls' = << >>
    /\ checks' = 0
    /\ saves' = 0
    /\ raised' = ""
    /\ UNCHANGED <<limiterVars, storeVars, historyVars, procVars, dispatchVars, orderVars>>

\* call_on_each_event delivers its first event, a message event that carries
\* the 'mentioned' flag.
MentionDelivered ==
    /\ event = NoEvent
    /\ call_on_each_event(
          {MessageEvent(m, {"mentioned"}) :
              m \in {PrivateMessage(OtherUserId, c) : c \in MentionContents}
                    \cup {StreamMessage(OtherUserId, c) : c \in MentionContents}})
    /\ UNCHANGED orderVars

NextMention ==
    \/ ExtractQuery
    \/ Startup
    \/ InitializeReturn
    \/ MentionDelivered
    \/ HandlerReturn
    \/ HandlerRaise

SpecMention == Init /\ [][NextMention]_vars

\* ================================================ ExternalBotHandler.open

\* self._root_dir, the directory of the plugin's module.
_root_dir == <<"/", "r", "/", "b">>

\* str.split("/")
RECURSIVE split(_)
split(path) ==
    IF path = << >>
    THEN << << >> >>
    ELSE LET rest == split(Tail(path))
         IN  IF Head(path) = "/"
             THEN << << >> >> \o rest
             ELSE << <<Head(path)>> \o Head(rest) >> \o Tail(rest)

\* "/".join(comps)
RECURSIVE join_comps(_)
join_comps(comps) ==
    IF comps = << >> THEN << >>
    ELSE IF Len(comps) = 1 THEN comps[1]
    ELSE comps[1] \o <<"/">> \o join_comps(Tail(comps))

DotDot == <<".", ".">>

\* The loop of posixpath.normpath over the components: empty and "."
\* components are skipped, ".." removes the component before it, and is kept
\* at the start of a relative path or after another "..".
RECURSIVE collapse(_, _, _)
collapse(comps, new_comps, initial_slashes) ==
    IF comps = << >>
    THEN new_comps
    ELSE LET comp == Head(comps)
         IN  IF comp \in {<< >>, <<".">>}
             THEN collapse(Tail(comps), new_comps, initial_slashes)
             ELSE IF \/ comp # DotDot
                     \/ initial_slashes = 0 /\ new_comps = << >>
                     \/ new_comps # << >> /\ Last(new_comps) = DotDot
             THEN collapse(Tail(comps), Append(new_comps, comp), initial_slashes)
             ELSE IF new_comps # << >>
             THEN collapse(Tail(comps), SubSeq(new_comps, 1, Len(new_comps) - 1),
                           initial_slashes)
             ELSE collapse(Tail(comps), new_comps, initial_slashes)

\* os.path.normpath
normpath(path) ==
    IF path = << >>
    THEN <<".">>
    ELSE LET initial_slashes ==
                 IF ~startswith(path, <<"/">>) THEN 0
                 ELSE IF startswith(path, <<"/", "/">>) /\ ~startswith(path, <<"/", "/", "/">>)
                 THEN 2
                 ELSE 1
             comps == collapse(split(path), << >>, initial_slashes)
             joined == SubSeq(<<"/", "/">>, 1, initial_slashes) \o join_comps(comps)
         IN  IF joined = << >> THEN <<".">> ELSE joined

\* os.path.join(a, b)
path_join(a, b) ==
    IF startswith(b, <<"/">>) THEN b
    ELSE IF a = << >> \/ Last(a) = "/" THEN a \o b
    ELSE a \o <<"/">> \o b

\* ExternalBotHandler.open(filepath): the builtin open is called with
\* abs_filepath, or PermissionError is raised.
open(filepath) ==
    LET normalised == normpath(filepath)
        abs_filepath == path_join(_root_dir, normalised)
    IN  IF startswith(abs_filepath, _root_dir)
        THEN /\ returned' = [kind |-> "file", val |-> abs_filepath]
             /\ raised' = ""
        ELSE /\ returned' = PyNone
             /\ raised' = "PermissionError"

\* The names of path segments, and the paths a plugin hands to open:
\* relative or absolute, of up to MaxSegs segments.
SegNames == {DotDot, <<".">>, <<"r">>, <<"b">>, <<"b", "2">>, <<"d">>}

Paths ==
    {lead \o join_comps(segs) : lead \in {<< >>, <<"/">>},
                                segs \in SeqsUpTo(SegNames, MaxSegs)}

Open ==
    /\ PluginRunning
    /\ \E filepath \in Paths :
          /\ open(filepath)
          /\ call_arg' = [filepath |-> filepath]
    /\ last_op' = Op("open", "")
    /\ storage_calls' = << >>
    /\ client_calls' = << >>
    /\ checks' = 0
    /\ saves' = 0
    /\ UNCHANGED <<limiterVars, storeVars, historyVars, procVars, dispatchVars, orderVars>>

NextOpen == Open

SpecOpen == InitFacade /\ [][NextOpen]_vars

\* ===================================================== RateLimit, alone

\* time.time() moves forward between calls.
Tick ==
    /\ now < MaxTime
    /\ now' = now + 1
    /\ last_op' = Op("tick", "")
    /\ storage_calls' = << >>
    /\ client_calls' = << >>
    /\ checks' = 0
    /\ UNCHANGED <<message_limit, interval_limit, message_list, legal, issued>>
    /\ UNCHANGED <<storeVars, returned, raised, historyVars, procVars, dispatchVars>>
    /\ saves' = 0
    /\ call_arg' = NoArg
    /\ UNCHANGED orderVars

\* One call of RateLimit.is_legal on a stand-alone limiter.
IsLegalCall ==
    /\ Len(issued) < MaxCalls
    /\ message_list' = WindowAfter(message_list, message_limit, now)
    /\ legal' = is_legal(message_list, message_limit, interval_limit, now)
    /\ issued' = Append(issued, now)
    /\ last_op' = Op("is_legal", "")
    /\ storage_calls' = << >>
    /\ returned' = PyBool(legal')
    /\ raised' = ""
    /\ client_calls' = << >>
    /\ checks' = 1
    /\ UNCHANGED <<message_limit, interval_limit, now>>
    /\ UNCHANGED <<storeVars, historyVars, procVars, dispatchVars>>
    /\ saves' = 0
    /\ call_arg' = NoArg
    /\ UNCHANGED orderVars

InitLimiter ==
    /\ \E limit \in 1..MaxN, interval \in 0..MaxI : RateLimitInit(limit, interval)
    /\ now = 0
    /\ legal = TRUE
    /\ issued = << >>
    /\ NoStore
    /\ InitTrace
    /\ uses_storage = FALSE
    /\ pc = "direct"
    /\ exit_code = "none"

NextLimiter == Tick \/ IsLegalCall

SpecLimiter == InitLimiter /\ [][NextLimiter]_vars

\* ================================================================ claims

IsSorted(s) == \A i \in 1..Len(s) : \A j \in i..Len(s) : s[i] <= s[j]

\* The last n elements of s.
Suffix(s, n) == SubSeq(s, Len(s) - n + 1, Len(s))

Min(a, b) == IF a <= b THEN a ELSE b

\* C2: every is_legal call appends the current timestamp; the k-th call
\* returns true while k <= message_limit; every later call first evicts the
\* oldest timestamp and returns true iff newest - oldest over the trimmed
\* window (the timestamps of the last message_limit calls) is >= interval_limit.
C2_WindowRule ==
    LET k == Len(issued)
    IN  k >= 1 =>
          /\ Last(message_list) = issued[k]
          /\ (k <= message_limit => legal /\ Len(message_list) = k)
          /\ (k > message_limit =>
                /\ Head(message_list) = issued[k - message_limit + 1]
                /\ (legal <=> issued[k] - issued[k - message_limit + 1] >= interval_limit))

C2_Witness ==
    /\ message_limit >= 2
    /\ interval_limit >= 1
    /\ Len(issued) > message_limit
    /\ legal
    /\ issued[Len(issued)] - issued[Len(issued) - message_limit] > interval_limit

\* C3 as stated: the (N+1)-th call returns true iff the timestamp of call
\* N+1 minus the timestamp of call 1 is >= interval_limit.
C3_SpanOverAllCalls ==
    Len(issued) = message_limit + 1 =>
        (legal <=> issued[message_limit + 1] - issued[1] >= interval_limit)

\* C3 amended: the (N+1)-th call returns true iff the timestamp of call N+1
\* minus the timestamp of call 2 is >= interval_limit (call 1 is evicted
\* before the span is measured).
C3_SpanAfterEviction ==
    Len(issued) = message_limit + 1 =>
        (legal <=> issued[message_limit + 1] - issued[2] >= interval_limit)

C3_Witness ==
    /\ Len(issued) = message_limit + 1
    /\ interval_limit >= 1
    /\ issued[message_limit + 1] - issued[1] >= interval_limit
    /\ ~legal

\* C4: after every is_legal call the window holds at most message_limit
\* timestamps, and they are the timestamps of the most recent calls in the
\* order the calls were made (hence chronological).
C4_WindowBounded ==
    /\ Len(message_list) <= message_limit
    /\ message_list = Suffix(issued, Min(Len(issued), message_limit))
    /\ IsSorted(message_list)

C4_Witness ==
    /\ Len(issued) > message_limit
    /\ Len(message_list) = message_limit
    /\ Head(message_list) < Last(message_list)
    /\ Head(issued) < Head(message_list)

\* C5 as stated: a _save that finds the dirty set empty calls update_storage
\* zero times and changes nothing.
C5_CleanFlushIsNoOp ==
    [][(last_op'.op = "_save" /\ _modified_entries = {})
         => (storage_calls' = << >> /\ UNCHANGED storeVars)]_vars

\* C6: a _save that finds the dirty set non-empty makes exactly one
\* update_storage call; its keys are the dirty keys, its values their current
\* marshalled values; after a success response the dirty set is empty.
C6_FlushSendsDirtyKeys ==
    [][(last_op'.op = "_save" /\ _modified_entries # {})
         => /\ Len(storage_calls') = 1
            /\ storage_calls'[1].call = "update_storage"
            /\ DOMAIN storage_calls'[1].payload = _modified_entries
            /\ \A k \in _modified_entries :
                  /\ storage_calls'[1].payload[k] = state_[k]
                  /\ storage_calls'[1].payload[k] = json_dumps(put_value[k])
            /\ (storage_calls'[1].result = "success" => _modified_entries' = {})]_vars

C6_Witness ==
    /\ last_op.op = "_save"
    /\ Len(storage_calls) = 1
    /\ storage_calls[1].result = "success"
    /\ DOMAIN storage_calls[1].payload = {"k1"}
    /\ DOMAIN state_ = Keys
    /\ _modified_entries = {}

\* C8 as stated: put(k, v), a successful _save, then a fresh StateHandler
\* over the same server storage: get(k) = v, for every value v.
C8_RoundTripAnyValue ==
    \A k \in roundtrip : contains(k) /\ get(k) = put_value[k]

\* C8 amended: the round trip gives v back when v is text, an integer or a
\* list of these; a tuple comes back as the list of its elements.
C8_RoundTripJson ==
    \A k \in roundtrip :
        /\ contains(k)
        /\ put_value[k].kind # "tuple" => get(k) = put_value[k]
        /\ put_value[k].kind = "tuple" => get(k) = PyList(put_value[k].val)

C8_Witness ==
    /\ last_op.op = "StateHandler"
    /\ store_ok
    /\ \E k \in roundtrip : put_value[k] = PyList(<<PyStr("1")>>)
    /\ \E k \in roundtrip : put_value[k] = PyTuple(<<PyInt("1")>>)

\* C9: the dirty set is a subset of the keys of the local mapping in every
\* reachable state; put(k, v) makes no storage call and leaves k in both.
C9_DirtySubsetOfKeys ==
    /\ _modified_entries \subseteq DOMAIN state_
    /\ last_op.op = "put" =>
          /\ storage_calls = << >>
          /\ last_op.key \in _modified_entries
          /\ last_op.key \in DOMAIN state_
          /\ state_[last_op.key] = json_dumps(put_value[last_op.key])

C9_Witness ==
    /\ last_op.op = "put"
    /\ DOMAIN state_ = Keys
    /\ _modified_entries = {last_op.key}
    /\ remote_state # EmptyMap

\* C7: a _save whose update_storage is rejected raises StateHandlerError,
\* which ends the dispatch loop (no step follows a crash); state_ and the
\* dirty set are what they were, so the next _save would send the update
\* that was just rejected.
C7_RejectedFlushPropagates ==
    [][/\ pc # "crashed"
       /\ (/\ storage_calls' # << >>
           /\ storage_calls'[1].call = "update_storage"
           /\ storage_calls'[1].result = "error")
          => /\ raised' = "StateHandlerError"
             /\ pc' = "crashed"
             /\ state_' = state_
             /\ _modified_entries' = _modified_entries
             /\ remote_state' = remote_state
             /\ StateUpdate(state_', _modified_entries') = storage_calls'[1].payload]_vars

C7_Witness ==
    /\ pc = "crashed"
    /\ raised = "StateHandlerError"
    /\ last_op.op = "handler_return"
    /\ DOMAIN state_ = Keys
    /\ _modified_entries = {"k2"}
    /\ storage_calls[1].payload = [k \in {"k2"} |-> state_["k2"]]

PrivateFromAnother(ev) ==
    /\ ev.type = "message"
    /\ ev.message.type = "private"
    /\ ev.message.sender_id # user_id

MentionedNotLeading(ev) ==
    /\ "mentioned" \in ev.flags
    /\ ~startswith(ev.message.content, Mention)

\* C10 as stated: every private message event from another sender gets the
\* plugin's handle_message invoked, whatever its flags.
C10_PrivateAlwaysDispatches ==
    (last_op.op = "event_callback" /\ PrivateFromAnother(event))
        => pc = "handling"

\* C10 amended: a private message event from another sender gets the
\* plugin's handle_message invoked unless it carries the 'mentioned' flag
\* and its content does not start with the bot's mention; then it is dropped
\* (no invocation, no _save).
C10_PrivateDispatchesUnlessBadMention ==
    (last_op.op = "event_callback" /\ PrivateFromAnother(event))
        => IF MentionedNotLeading(event)
           THEN pc = "idle" /\ storage_calls = << >>
           ELSE /\ pc = "handling"
                /\ message.type = "private"
                /\ message.sender_id = event.message.sender_id
                /\ "mentioned" \notin event.flags => message = event.message

C10_Witness ==
    /\ last_op.op = "event_callback"
    /\ PrivateFromAnother(event)
    /\ "mentioned" \in event.flags
    /\ pc = "handling"
    /\ message.content = <<"h", "i">>

\* C11: the plugin's handle_message is invoked only on a 'message' event
\* that is a private message from another user or carries the 'mentioned'
\* flag; an event of another type invokes nothing and makes no StateHandler
\* call; a stream message, or a private message of the bot itself, without
\* the 'mentioned' flag is never handed to the plugin.
C11_DispatchOnlyQualifying ==
    last_op.op = "event_callback" =>
        /\ pc = "handling" =>
              /\ event.type = "message"
              /\ PrivateFromAnother(event) \/ "mentioned" \in event.flags
        /\ event.type # "message" =>
              /\ pc = "idle"
              /\ saves = 0
              /\ storage_calls = << >>
              /\ raised = ""
        /\ (/\ event.type = "message"
            /\ ~PrivateFromAnother(event)
            /\ "mentioned" \notin event.flags) => pc # "handling"

C11_Witness ==
    /\ last_op.op = "event_callback"
    /\ event.type = "message"
    /\ event.message.type = "private"
    /\ event.message.sender_id = user_id
    /\ event.flags = {}
    /\ pc = "idle"
    /\ saves = 1

\* C12: a message event that carries the 'mentioned' flag and whose content
\* does not start with the bot's mention is dropped, private or stream
\* alike: the plugin's handle_message is not invoked and _save is not called.
C12_BadMentionDropped ==
    (/\ last_op.op = "event_callback"
     /\ event.type = "message"
     /\ MentionedNotLeading(event))
        => /\ pc = "idle"
           /\ saves = 0
           /\ storage_calls = << >>
           /\ raised = ""

C12_Witness ==
    /\ last_op.op = "event_callback"
    /\ event.type = "message"
    /\ event.message.type = "stream"
    /\ "mentioned" \in event.flags
    /\ event.message.content = <<"h", "i", " ">> \o Mention
    /\ pc = "idle"
    /\ saves = 0

\* The step ends the processing of a message event that was not dropped:
\* the plugin returns, or the event is not handed to the plugin at all.
ReachesSave ==
    \/ last_op'.op = "handler_return"
    \/ /\ last_op'.op = "event_callback"
       /\ event'.type = "message"
       /\ ~MentionedNotLeading(event')
       /\ pc' # "handling"

\* C13 as stated: for every message event that is not dropped, _save is
\* called exactly once after the plugin (if invoked) returns and before the
\* next event is taken; when nothing was written since the last flush that
\* call is a no-op: no storage call, nothing changed in the store.
C13_FlushOnceAndNoOpWhenClean ==
    [][ReachesSave =>
          /\ saves' = 1
          /\ _modified_entries = {} =>
                /\ storage_calls' = << >>
                /\ raised' = ""
                /\ UNCHANGED storeVars]_vars

\* A qualifying event: a message that is private from another user or
\* carries the 'mentioned' flag, and is not dropped for a mention that does
\* not lead its content.
Qualifies(ev) ==
    /\ ev.type = "message"
    /\ PrivateFromAnother(ev) \/ "mentioned" \in ev.flags
    /\ ~MentionedNotLeading(ev)

\* C14: of the events delivered so far, each qualifying one has exactly one
\* invocation of the plugin's handle_message and no other event has any;
\* the invocations come in delivery order; and every invocation is followed
\* by the end of its own flush before the next invocation starts.
C14_OneInvocationInOrder ==
    /\ \A n \in 1..Len(delivered) :
          Cardinality({i \in DOMAIN invocation_log : invocation_log[i] = <<n, "invoke">>})
              = (IF Qualifies(delivered[n]) THEN 1 ELSE 0)
    /\ \A i \in DOMAIN invocation_log :
          IF i % 2 = 1
          THEN invocation_log[i][2] = "invoke"
          ELSE invocation_log[i] = <<invocation_log[i - 1][1], "done">>
    /\ \A i, j \in DOMAIN invocation_log :
          (i < j /\ invocation_log[i][2] = "invoke" /\ invocation_log[j][2] = "invoke")
              => invocation_log[i][1] < invocation_log[j][1]

C14_Witness ==
    /\ Len(delivered) >= 2
    /\ ~Qualifies(delivered[1])
    /\ invocation_log = << <<2, "invoke">>, <<2, "done">> >>
    /\ pc = "idle"

\* C15 as stated: the process exits with code 0 on an interrupt only at an
\* iteration boundary, when no plugin invocation and no flush is in flight,
\* so the exit leaves no update_storage call behind that the store has not
\* accounted for.
C15_ExitOnlyAtBoundary ==
    [][(exit_code # "0" /\ exit_code' = "0") =>
          /\ pc = "idle"
          /\ storage_calls' = << >>
          /\ UNCHANGED remote_state]_vars

\* The segments of the absolute path the operating system resolves
\* abs_path to: "." and empty segments vanish, ".." steps up and stays at
\* the root directory "/".
RECURSIVE ResolveSegs(_, _)
ResolveSegs(segs, done) ==
    IF segs = << >> THEN done
    ELSE IF Head(segs) \in {<< >>, <<".">>} THEN ResolveSegs(Tail(segs), done)
    ELSE IF Head(segs) = DotDot
    THEN ResolveSegs(Tail(segs), IF done = << >> THEN done
                                 ELSE SubSeq(done, 1, Len(done) - 1))
    ELSE ResolveSegs(Tail(segs), Append(done, Head(segs)))

\* The path argument, taken relative to the root directory unless absolute.
ResolvedFrom(root, filepath) ==
    IF filepath # << >> /\ Head(filepath) = "/"
    THEN ResolveSegs(split(filepath), << >>)
    ELSE ResolveSegs(split(root) \o split(filepath), << >>)

WithinRoot(root, filepath) ==
    LET rootSegs == ResolveSegs(split(root), << >>)
        segs == ResolvedFrom(root, filepath)
    IN  /\ Len(segs) >= Len(rootSegs)
        /\ \A i \in 1..Len(rootSegs) : segs[i] = rootSegs[i]

\* C16 as stated: open(path) returns a file only if the path resolves to a
\* place within the root directory and raises PermissionError otherwise.
C16_OpenStaysInRoot ==
    last_op.op = "open" =>
        IF WithinRoot(_root_dir, call_arg.filepath)
        THEN raised = ""
        ELSE raised = "PermissionError" /\ returned = PyNone

\* C17: a facade has a StateHandler, and its storage property returns it,
\* if and only if the plugin declared uses_storage; without the declaration
\* every access to storage raises AttributeError, no StateHandler is ever
\* constructed and no storage call is ever made.
C17_StorageIffDeclared ==
    /\ store_ok => uses_storage
    /\ pc \in {"initialize", "idle", "handling"} => (store_ok <=> uses_storage)
    /\ (uses_storage /\ last_op.op = "put") => raised = "" /\ returned = PyNone
    /\ ~uses_storage =>
          /\ state_ = EmptyMap
          /\ _modified_entries = {}
          /\ storage_calls = << >>
          /\ saves = 0
          /\ last_op.op \in {"put", "handler_return"} => raised = "AttributeError"
          /\ (last_op.op = "event_callback" /\ pc \notin {"idle", "handling"})
                => raised = "AttributeError"

C17_Witness ==
    /\ ~uses_storage
    /\ last_op.op = "put"
    /\ raised = "AttributeError"
    /\ pc = "crashed"

\* C18: a send_reply that the limiter lets through sends exactly one
\* envelope, through send_message (one is_legal check, one send_message
\* client call) with the response as content: for a private original it is
\* a private envelope to the participants of the conversation other than the
\* bot itself, in their order; otherwise a stream envelope to the stream and
\* the subject of the original.
C18_ReplyEnvelope ==
    (last_op.op = "send_reply" /\ legal) =>
        /\ checks = 1
        /\ Len(client_calls) = 1
        /\ client_calls[1].call = "send_message"
        /\ LET msg == call_arg.message
               env == client_calls[1].payload
               recipients == msg.display_recipient
           IN  /\ env.content = call_arg.response
               /\ IF msg.type = "private"
                  THEN /\ DOMAIN env = {"type", "to", "content"}
                       /\ env.type = "private"
                       /\ \A i \in DOMAIN env.to :
                             /\ env.to[i] # email
                             /\ \E j \in DOMAIN recipients : recipients[j].email = env.to[i]
                       /\ Len(env.to) =
                             Cardinality({j \in DOMAIN recipients : recipients[j].email # email})
                       /\ \A i, k \in DOMAIN env.to :
                             i < k => \E j, l \in DOMAIN recipients :
                                         /\ j < l
                                         /\ recipients[j].email = env.to[i]
                                         /\ recipients[l].email = env.to[k]
                  ELSE env = [type |-> "stream", to |-> recipients,
                              subject |-> msg.subject, content |-> call_arg.response]

C18_Witness ==
    /\ last_op.op = "send_reply"
    /\ legal
    /\ call_arg.message.type = "private"
    /\ call_arg.message.display_recipient =
          <<[email |-> email], [email |-> "a@zulip"], [email |-> "b@zulip"]>>
    /\ client_calls[1].payload.to = <<"a@zulip", "b@zulip">>

HasPrefix(text, token) ==
    /\ Len(text) >= Len(token)
    /\ \A i \in 1..Len(token) : text[i] = token[i]

\* rest is what follows the first k characters of text once the whitespace
\* that leads it is removed.
IsStrippedRest(text, k, rest) ==
    \E w \in 0..(Len(text) - k) :
        /\ \A i \in (k + 1)..(k + w) : text[i] \in {" ", "\n"}
        /\ rest = SubSeq(text, k + w + 1, Len(text))
        /\ rest # << >> => rest[1] \notin {" ", "\n"}

\* C19: for every content and name, extract_query_without_mention returns
\* the rest of the content after the token '@**' + name + '**' without its
\* leading whitespace when the content starts with the token, and None
\* otherwise, also when the token stands later in the content; the stripped
\* text is the content of the message the plugin is handed for an event with
\* the 'mentioned' flag.
C19_MentionExtraction ==
    /\ last_op.op = "extract_query_without_mention" =>
          LET token == <<"@", "*", "*">> \o call_arg.full_name \o <<"*", "*">>
          IN  IF HasPrefix(call_arg.content, token)
              THEN /\ returned.kind = "str"
                   /\ IsStrippedRest(call_arg.content, Len(token), returned.val)
              ELSE returned.kind = "None"
    /\ (/\ last_op.op = "event_callback"
        /\ event.type = "message"
        /\ "mentioned" \in event.flags) =>
          IF HasPrefix(event.message.content, Mention)
          THEN /\ pc = "handling"
               /\ IsStrippedRest(event.message.content, Len(Mention), message.content)
          ELSE pc = "idle"

C19_Witness ==
    /\ last_op.op = "extract_query_without_mention"
    /\ call_arg.full_name = <<"X">>
    /\ call_arg.content = <<"@", "*", "*", "X", "*", "*", "\n", "h">>
    /\ returned.val = <<"h">>

\* C20: with the StateHandler the only writer of the server's storage and a
\* rejected update changing nothing there, every key of state_ that is not in
\* _modified_entries has the same serialized value in state_ and on the
\* server, in every state that construction, put and _save, accepted or
\* rejected, can reach; after an accepted _save that holds for all keys.
C20_CleanKeysInSync ==
    /\ \A key \in DOMAIN state_ \ _modified_entries :
          /\ key \in DOMAIN remote_state
          /\ remote_state[key] = state_[key]
    /\ (last_op.op = "_save" /\ raised = "") =>
          /\ DOMAIN state_ \subseteq DOMAIN remote_state
          /\ \A key \in DOMAIN state_ : remote_state[key] = state_[key]

C20_Witness ==
    /\ last_op.op = "_save"
    /\ raised = "StateHandlerError"
    /\ _modified_entries = {"k2"}
    /\ DOMAIN state_ = {"k1", "k2"}
    /\ "k1" \in DOMAIN remote_state
    /\ "k2" \notin DOMAIN remote_state

\* C21: for a plugin that did not declare uses_storage, a message event that
\* is not dropped for its mention ends with AttributeError raised out of
\* event_callback by the storage property, before _save is called: at once
\* when the event does not qualify, and once the plugin's handle_message has
\* been invoked and has returned when it does; the process does not go on to
\* another event. Events of another type and dropped events end without
\* error and leave the loop waiting for the next event.
C21_NoStorageFlushRaises ==
    ~uses_storage =>
        /\ last_op.op = "event_callback" =>
              IF event.type # "message" \/ MentionedNotLeading(event)
              THEN pc = "idle" /\ raised = ""
              ELSE IF Qualifies(event)
              THEN pc = "handling" /\ raised = ""
              ELSE pc = "crashed" /\ raised = "AttributeError" /\ saves = 0
        /\ last_op.op = "handler_return" =>
              /\ Qualifies(event)
              /\ pc = "crashed"
              /\ raised = "AttributeError"
              /\ saves = 0
              /\ storage_calls = << >>

C21_Witness ==
    /\ ~uses_storage
    /\ last_op.op = "handler_return"
    /\ event.message.type = "stream"
    /\ "mentioned" \in event.flags
    /\ message.content = <<"h", "i">>
    /\ raised = "AttributeError"
    /\ pc = "crashed"

SendOps == {"send_message", "send_reply", "update_message"}

\* C1: send_message, send_reply and update_message each make exactly one
\* is_legal call on the facade's limiter before anything is transmitted; a
\* legal call is followed by exactly one client call; an illegal one by no
\* client call and sys.exit(1), after which the facade does nothing more.
C1_CheckBeforeTransmit ==
    /\ client_calls # << >> => last_op.op \in SendOps
    /\ last_op.op \in SendOps =>
          /\ checks = 1
          /\ Last(message_list) = now
          /\ legal =>
                /\ Len(client_calls) = 1
                /\ client_calls[1].call =
                      (IF last_op.op = "update_message" THEN "update_message" ELSE "send_message")
                /\ exit_code = "none"
                /\ pc # "exited"
          /\ ~legal =>
                /\ client_calls = << >>
                /\ exit_code = "1"
                /\ pc = "exited"
    /\ pc = "exited" => client_calls = << >>

C1_Witness ==
    /\ last_op.op = "send_reply"
    /\ ~legal
    /\ exit_code = "1"
    /\ now > 0
    /\ Head(message_list) = now

====
